---- MODULE Spec2Model ----
(***************************************************************************)
(* The people router (server/src/routes/people-mongo.js): eleven HTTP      *)
(* handlers over the people collection, with lookups into pets and cars.   *)
(*                                                                         *)
(* A JSON scalar is a record [t, v]: Num(n) the number n, NumStr(n) the    *)
(* string spelling the number n, Text(k) the k-th non-numeric string,      *)
(* Missing an absent value.  A document is a record whose DOMAIN is the    *)
(* set of fields it has.  A path identifier is an integer: BadId is a      *)
(* string that is no ObjectId, n > 0 the ObjectId number n.                *)
(***************************************************************************)
EXTENDS Integers, Sequences, FiniteSets, TLC

VARIABLES people, nextId, pets, clock, inflight, resp

vars == <<people, nextId, pets, clock, inflight, resp>>

\* ------------------------------------------------------------------ bounds
MaxPeople == 2
MaxClock == 1
MaxPetIds == 2
MaxInflight == 2

\* ------------------------------------------------------------- JSON values
Num(n) == [t |-> "number", v |-> n]
NumStr(n) == [t |-> "numstr", v |-> n]
Text(k) == [t |-> "text", v |-> k]
Missing == [t |-> "missing", v |-> 0]
Null == [t |-> "null", v |-> 0]

BadId == 0
PetIdSpace == {1, 2}
CarIdSpace == {1, 2, 3}
\* the cars collection: never written by this router
cars == {1, 2}

Field(doc, f) == IF f \in DOMAIN doc THEN doc[f] ELSE Missing

RECURSIVE SortedSeq(_)
\* the elements of a finite set of integers in ascending order: the natural
\* (insertion) order of a collection whose ids are assigned in sequence
SortedSeq(S) ==
    IF S = {} THEN <<>>
    ELSE LET m == CHOOSE x \in S : \A y \in S : x <= y
         IN <<m>> \o SortedSeq(S \ {m})

Range(s) == {s[i] : i \in DOMAIN s}

\* ------------------------------------------------------------ collaborators
\* ObjectId(id) throws on a string that is no ObjectId
ObjectIdThrows(id) == id = BadId

\* utils/validators.js: well-formed and names an existing document
validatePersonId(id, ppl) == id # BadId /\ id \in DOMAIN ppl
validatePetId(id, pts) == id # BadId /\ id \in pts
validateCarId(id) == id # BadId /\ id \in cars

\* utils/error.js
sendError == [status |-> 500, body |-> "error"]

\* models/Person.js: the submitted fields, unchanged
Person(body) == [f \in DOMAIN body \cap {"name", "lastname", "age"} |-> body[f]]

\* express-validator
exists(v) == v.t # "missing"
isString(v) == v.t \in {"numstr", "text"}
isFloat(v, min, max) == v.t \in {"number", "numstr"} /\ v.v >= min /\ v.v <= max

Err(param, msg) == [param |-> param, msg |-> msg]

\* ---------------------------------------------------------------- storage
\* a stored document as a query returns it, with its _id
WithId(p, doc) == [f \in DOMAIN doc \cup {"_id"} |-> IF f = "_id" THEN p ELSE doc[f]]

\* find(filter).toArray(): the matching documents in natural order
find(ppl, ids) == LET s == SortedSeq(ids) IN [i \in DOMAIN s |-> WithId(s[i], ppl[s[i]])]

\* insertOne: the storage layer assigns the next id
insertOne(ppl, nid, doc) == [p \in DOMAIN ppl \cup {nid} |-> IF p = nid THEN doc ELSE ppl[p]]

\* deleteOne({_id}): removes the matching document, if any
deleteOne(ppl, id) == [p \in DOMAIN ppl \ {id} |-> ppl[p]]

\* {$set: update} applied to one document
Set(doc, update) ==
    [f \in DOMAIN doc \cup DOMAIN update |-> IF f \in DOMAIN update THEN update[f] ELSE doc[f]]

\* {$addToSet: {petIds: petId}}: no second copy of an id already there
AddToSet(doc, petId) ==
    Set(doc, [f \in {"petIds"} |->
                LET old == IF "petIds" \in DOMAIN doc THEN doc.petIds ELSE <<>>
                IN IF petId \in {old[i] : i \in DOMAIN old} THEN old ELSE Append(old, petId)])

\* {$push: {petIds: petId}} applied to one document: creates the array when absent
Push(doc, petId) ==
    Set(doc, [f \in {"petIds"} |->
                Append(IF "petIds" \in DOMAIN doc THEN doc.petIds ELSE <<>>, petId)])

\* {$unset: [field]}
Unset(doc, field) == [f \in DOMAIN doc \ {field} |-> doc[f]]

\* updateMany({}, change): the filter is lost
updateManySet(ppl, id, update) == [p \in DOMAIN ppl |-> Set(ppl[p], update)]

\* updateOne({_id}, change): changes the matching document, if any
updateOneSet(ppl, id, update) ==
    [p \in DOMAIN ppl |-> IF p = id THEN Set(ppl[p], update) ELSE ppl[p]]

updateOnePush(ppl, id, petId) ==
    [p \in DOMAIN ppl |-> IF p = id THEN Push(ppl[p], petId) ELSE ppl[p]]

RECURSIVE SumAges(_, _)
SumAges(ppl, ids) ==
    IF ids = {} THEN 0
    ELSE LET p == CHOOSE x \in ids : TRUE IN ppl[p].age.v + SumAges(ppl, ids \ {p})

RECURSIVE GCD(_, _)
GCD(a, b) == IF b = 0 THEN a ELSE GCD(b, a % b)

\* a rational number, in lowest terms
Ratio(a, b) == LET g == GCD(a, b) IN [t |-> "number", num |-> a \div g, den |-> b \div g]

\* the sum of the numeric ages divided by the number of all documents
AvgOverAll(ppl) ==
    LET numeric == {p \in DOMAIN ppl : Field(ppl[p], "age").t = "number"}
    IN IF numeric = {} THEN Null
       ELSE Ratio(SumAges(ppl, numeric), Cardinality(DOMAIN ppl))

\* {$avg: "$age"}: the mean of the numeric values, null when there is none
Avg(ppl) ==
    LET numeric == {p \in DOMAIN ppl : Field(ppl[p], "age").t = "number"}
    IN IF numeric = {} THEN Null
       ELSE Ratio(SumAges(ppl, numeric), Cardinality(numeric))

\* ---------------------------------------------------------------- replies
Reply(ppl, nid, status, body) ==
    [people |-> ppl, nextId |-> nid, status |-> status, body |-> body]

BadRequest(ppl, nid, errors) == Reply(ppl, nid, 400, [errors |-> errors])

Failed(ppl, nid) == Reply(ppl, nid, sendError.status, sendError.body)

\* ------------------------------------------------------------- validators
PostValidators(body) ==
    {Err(f, "Missing param") : f \in {g \in {"name", "lastname", "age"} : ~exists(Field(body, g))}}
    \cup {Err(f, "Invalid value") : f \in {g \in {"name", "lastname"} : ~isString(Field(body, g))}}
    \cup (IF isFloat(Field(body, "age"), 1, 150) THEN {} ELSE {Err("age", "Invalid value")})

IdValidator(id, ppl) == IF validatePersonId(id, ppl) THEN {} ELSE {Err("id", "Invalid value")}

allowedFields == {"name", "lastname", "age"}

PatchValidators(id, body, ppl) ==
    IdValidator(id, ppl)
    \cup (IF \E key \in DOMAIN body : key \notin allowedFields
          THEN {Err("", "Bad model")} ELSE {})

\* Number(age) is NaN for a non-numeric string; the comparisons coerce the string
AgeValidator(age) ==
    IF age.t # "numstr" \/ age.v < 1 \/ age.v > 150
    THEN {Err("age", "Invalid value")} ELSE {}

PetValidators(id, petId, ppl, pts) ==
    IdValidator(id, ppl)
    \cup (IF validatePetId(petId, pts) THEN {} ELSE {Err("petId", "Invalid value")})

CarValidators(id, carId, ppl) ==
    IdValidator(id, ppl)
    \cup (IF validateCarId(carId) THEN {} ELSE {Err("carId", "Invalid value")})

\* --------------------------------------------------------------- handlers
GetAll(ppl, nid) == Reply(ppl, nid, 200, find(ppl, DOMAIN ppl))

PostPerson(body, errors, ppl, nid) ==
    IF errors # {} THEN BadRequest(ppl, nid, errors)
    ELSE LET person == Person(body)
         IN Reply(insertOne(ppl, nid, person), nid + 1, 200, WithId(nid, person))

\* the delete handler, had it read the validation result
DeletePersonChecked(id, errors, ppl, nid) ==
    IF errors # {} THEN BadRequest(ppl, nid, errors)
    ELSE IF ObjectIdThrows(id) THEN Failed(ppl, nid)
    ELSE Reply(deleteOne(ppl, id), nid, 200, [deletedPersonId |-> id])

DeletePerson(id, errors, ppl, nid) ==
    IF ObjectIdThrows(id) THEN Failed(ppl, nid)
    ELSE Reply(deleteOne(ppl, id), nid, 200, [deletedPersonId |-> id])

\* the patch handler, had it not read the validation result
PatchPersonUnchecked(id, body, errors, ppl, nid, now) ==
    LET update == Set(body, [f \in {"updatedAt"} |-> Num(now)])
    IN IF ObjectIdThrows(id) THEN Failed(ppl, nid)
       ELSE Reply(updateOneSet(ppl, id, update), nid, 200, [updatedPersonId |-> id])

PatchPerson(id, body, errors, ppl, nid, now) ==
    IF errors # {} THEN BadRequest(ppl, nid, errors)
    ELSE LET update == Set(body, [f \in {"updatedAt"} |-> Num(now)])
         IN IF ObjectIdThrows(id) THEN Failed(ppl, nid)
            ELSE Reply(updateOneSet(ppl, id, update), nid, 200, [updatedPersonId |-> id])

GetByName(name, ppl, nid) ==
    Reply(ppl, nid, 200, find(ppl, {p \in DOMAIN ppl : Field(ppl[p], "name") = name}))

GetByAge(age, errors, ppl, nid) ==
    IF errors # {} THEN BadRequest(ppl, nid, errors)
    ELSE Reply(ppl, nid, 200,
               find(ppl, {p \in DOMAIN ppl : Field(ppl[p], "age") = Num(age.v)}))

\* $group with a constant _id: one group when there is a document, none otherwise
GetAverageAge(ppl, nid) ==
    Reply(ppl, nid, 200,
          IF DOMAIN ppl = {} THEN <<>>
          ELSE <<[_id |-> "average", average |-> Avg(ppl)]>>)

PostPersonPet(id, petId, errors, ppl, nid) ==
    IF errors # {} THEN BadRequest(ppl, nid, errors)
    ELSE IF ObjectIdThrows(id) \/ ObjectIdThrows(petId) THEN Failed(ppl, nid)
    ELSE Reply(updateOnePush(ppl, id, petId), nid, 200,
               [addedPetId |-> petId, updatedPersonId |-> id])

\* the nested pipeline of the $lookup: the pets whose _id is $in the person's petIds
LookupPets(doc, pts) ==
    LET s == SortedSeq({k \in pts : k \in Range(doc.petIds)})
    IN [i \in DOMAIN s |-> [_id |-> s[i]]]

\* $in requires an array: the aggregation fails on a matched person without petIds
GetPersonPets(id, errors, ppl, pts, nid) ==
    IF errors # {} THEN BadRequest(ppl, nid, errors)
    ELSE IF ObjectIdThrows(id) THEN Failed(ppl, nid)
    ELSE LET matched == SortedSeq(DOMAIN ppl \cap {id})
         IN IF \E i \in DOMAIN matched : "petIds" \notin DOMAIN ppl[matched[i]]
            THEN Failed(ppl, nid)
            ELSE Reply(ppl, nid, 200,
                       [i \in DOMAIN matched |->
                          Unset(Set(WithId(matched[i], ppl[matched[i]]),
                                    [f \in {"pets"} |-> LookupPets(ppl[matched[i]], pts)]),
                                "petIds")])

\* $lookup by localField/foreignField: a missing carId equals no car's _id
LookupCar(doc) ==
    LET s == SortedSeq({c \in cars : "carId" \in DOMAIN doc /\ doc.carId = c})
    IN [i \in DOMAIN s |-> [_id |-> s[i]]]

\* the get-car pipeline, had it begun with {$match: {_id}}
GetPersonCarMatched(id, errors, ppl, nid) ==
    LET all == SortedSeq(DOMAIN ppl \cap {id})
    IN Reply(ppl, nid, 200,
             [i \in DOMAIN all |->
                Unset(Set(WithId(all[i], ppl[all[i]]),
                          [f \in {"car"} |-> LookupCar(ppl[all[i]])]),
                      "carId")])

\* the validation result is never read and the pipeline has no $match stage
GetPersonCar(id, errors, ppl, nid) ==
    LET all == SortedSeq(DOMAIN ppl)
    IN Reply(ppl, nid, 200,
             [i \in DOMAIN all |->
                Unset(Set(WithId(all[i], ppl[all[i]]),
                          [f \in {"car"} |-> LookupCar(ppl[all[i]])]),
                      "carId")])

PostPersonCar(id, carId, errors, ppl, nid) ==
    IF errors # {} THEN BadRequest(ppl, nid, errors)
    ELSE IF ObjectIdThrows(id) \/ ObjectIdThrows(carId) THEN Failed(ppl, nid)
    ELSE Reply(updateOneSet(ppl, id, [f \in {"carId"} |-> carId]), nid, 200,
               [updatedPersonId |-> id, newCarId |-> carId])

\* ----------------------------------------------------------------- router
\* a request: the route (op), the path parameters (id; sub, the petId or carId;
\* val, the name or age) and the JSON body
Req(op, id, sub, val, body) == [op |-> op, id |-> id, sub |-> sub, val |-> val, body |-> body]

NoBody == [f \in {} |-> Missing]

\* the validator chain declared on the request's route
Validators(req, ppl, pts) ==
    CASE req.op = "post" -> PostValidators(req.body)
      [] req.op = "delete" -> IdValidator(req.id, ppl)
      [] req.op = "patch" -> PatchValidators(req.id, req.body, ppl)
      [] req.op = "age" -> AgeValidator(req.val)
      [] req.op = "addPet" -> PetValidators(req.id, req.sub, ppl, pts)
      [] req.op = "pets" -> IdValidator(req.id, ppl)
      [] req.op = "car" -> IdValidator(req.id, ppl)
      [] req.op = "addCar" -> CarValidators(req.id, req.sub, ppl)
      [] OTHER -> {}

\* the handler of the request's route
Handler(req, errors, ppl, pts, nid, now) ==
    CASE req.op = "all" -> GetAll(ppl, nid)
      [] req.op = "post" -> PostPerson(req.body, errors, ppl, nid)
      [] req.op = "delete" -> DeletePerson(req.id, errors, ppl, nid)
      [] req.op = "patch" -> PatchPerson(req.id, req.body, errors, ppl, nid, now)
      [] req.op = "name" -> GetByName(req.val, ppl, nid)
      [] req.op = "age" -> GetByAge(req.val, errors, ppl, nid)
      [] req.op = "average" -> GetAverageAge(ppl, nid)
      [] req.op = "addPet" -> PostPersonPet(req.id, req.sub, errors, ppl, nid)
      [] req.op = "pets" -> GetPersonPets(req.id, errors, ppl, pts, nid)
      [] req.op = "car" -> GetPersonCar(req.id, errors, ppl, nid)
      [] req.op = "addCar" -> PostPersonCar(req.id, req.sub, errors, ppl, nid)

\* the model's bounds on what storage may hold
WithinBounds(r) ==
    /\ r.nextId <= MaxPeople + 1
    /\ \A p \in DOMAIN r.people :
          "petIds" \in DOMAIN r.people[p] => Len(r.people[p].petIds) <= MaxPetIds

Response(req, errors, r) ==
    [req |-> req, errors |-> errors, status |-> r.status, body |-> r.body]

NoReq == Req("none", BadId, BadId, Missing, NoBody)

NoResp == [req |-> NoReq, errors |-> {}, status |-> 0, body |-> "none"]

\* a slot of the server: idle, or a validated request whose handler has not run
Idle == [req |-> NoReq, errors |-> {}]

\* one request served from validation to response with no other request in between
Serve(req) ==
    LET errors == Validators(req, people, pets)
        r == Handler(req, errors, people, pets, nextId, clock)
    IN /\ \A s \in DOMAIN inflight : inflight[s] = Idle
       /\ WithinBounds(r)
       /\ people' = r.people
       /\ nextId' = r.nextId
       /\ resp' = Response(req, errors, r)
       /\ UNCHANGED <<pets, clock, inflight>>

\* the client receives the response
Receive ==
    /\ resp # NoResp
    /\ resp' = NoResp
    /\ UNCHANGED <<people, nextId, pets, clock, inflight>>

\* a request arrives and the validators of its route run (the handler runs later)
Validate(s, req) ==
    /\ resp = NoResp
    /\ inflight[s] = Idle
    /\ inflight' = [inflight EXCEPT ![s] = [req |-> req, errors |-> Validators(req, people, pets)]]
    /\ UNCHANGED <<people, nextId, pets, clock, resp>>

\* the handler of a validated request runs: its storage call and its response
Handle(s) ==
    LET req == inflight[s].req
        errors == inflight[s].errors
        r == Handler(req, errors, people, pets, nextId, clock)
    IN /\ resp = NoResp
       /\ inflight[s] # Idle
       /\ WithinBounds(r)
       /\ people' = r.people
       /\ nextId' = r.nextId
       /\ resp' = Response(req, errors, r)
       /\ inflight' = [inflight EXCEPT ![s] = Idle]
       /\ UNCHANGED <<pets, clock>>

\* --------------------------------------------------------------- actions
Ids == 0 .. MaxPeople

\* each waits for the previous response to be received
ListAll ==
    /\ resp = NoResp
    /\ Serve(Req("all", BadId, BadId, Missing, NoBody))

Create(bodies) == \E body \in bodies :
    /\ resp = NoResp
    /\ Serve(Req("post", BadId, BadId, Missing, body))

Delete == \E id \in Ids :
    /\ resp = NoResp
    /\ Serve(Req("delete", id, BadId, Missing, NoBody))

PartialUpdate(bodies) == \E id \in Ids, body \in bodies :
    /\ resp = NoResp
    /\ Serve(Req("patch", id, BadId, Missing, body))

FindByName(names) == \E name \in names :
    /\ resp = NoResp
    /\ Serve(Req("name", BadId, BadId, name, NoBody))

FindByAge(ages) == \E age \in ages :
    /\ resp = NoResp
    /\ Serve(Req("age", BadId, BadId, age, NoBody))

AverageAge ==
    /\ resp = NoResp
    /\ Serve(Req("average", BadId, BadId, Missing, NoBody))

AddPet(petIds) == \E id \in Ids, petId \in petIds :
    /\ resp = NoResp
    /\ Serve(Req("addPet", id, petId, Missing, NoBody))

ListPets == \E id \in Ids :
    /\ resp = NoResp
    /\ Serve(Req("pets", id, BadId, Missing, NoBody))

GetCar == \E id \in Ids :
    /\ resp = NoResp
    /\ Serve(Req("car", id, BadId, Missing, NoBody))

AttachCar(carIds) == \E id \in Ids, carId \in carIds :
    /\ resp = NoResp
    /\ Serve(Req("addCar", id, carId, Missing, NoBody))

\* another router of the application deletes a pet
DeletePet == \E k \in pets :
    /\ resp = NoResp
    /\ pets' = pets \ {k}
    /\ UNCHANGED <<people, nextId, clock, inflight, resp>>

\* time passes: Date.now() never decreases
Tick ==
    /\ resp = NoResp
    /\ clock < MaxClock
    /\ clock' = clock + 1
    /\ UNCHANGED <<people, nextId, pets, inflight, resp>>

Init ==
    /\ people = [p \in {} |-> NoBody]
    /\ nextId = 1
    /\ pets = PetIdSpace
    /\ clock = 0
    /\ inflight = [s \in 1 .. MaxInflight |-> Idle]
    /\ resp = NoResp

\* ------------------------------------------------- the people's own fields
\* every route, with the bodies and parameters that vary name and age; no
\* request of this specification passes the pet or car validators
Valid == [name |-> Text(1), lastname |-> Text(1), age |-> Num(10)]

CreateBodies ==
    {Valid, [Valid EXCEPT !.age = Num(30)]}
    \cup {[Valid EXCEPT !.age = a] : a \in {Num(0), Num(151), NumStr(151), Text(1)}}
    \cup {[Valid EXCEPT !.name = Num(7)], [name |-> Text(1), age |-> Num(10)],
          [name |-> Text(1), lastname |-> Text(1)]}

PatchBodies ==
    {NoBody, [name |-> Text(2)], [lastname |-> Text(1)],
     [age |-> Num(151)], [age |-> Text(1)], [name |-> Text(2), age |-> Num(30)],
     [name |-> Text(2), role |-> Text(1)], [petIds |-> <<>>]}

Names == {Text(1), Text(2)}
Ages == {NumStr(10), NumStr(30), NumStr(0), NumStr(151), Text(1)}

Next ==
    \/ ListAll \/ Create(CreateBodies) \/ Delete \/ PartialUpdate(PatchBodies)
    \/ FindByName(Names) \/ FindByAge(Ages) \/ AverageAge
    \/ AddPet({BadId}) \/ ListPets \/ GetCar \/ AttachCar({BadId, 3}) \/ Tick
    \/ Receive

Spec == Init /\ [][Next]_vars

\* ------------------------------------------------------------- the pets
\* every route, with the requests that vary petIds; time stands still and no
\* pet is deleted
RelCreateBodies == {Valid, [Valid EXCEPT !.age = Num(151)]}

RelPatchBodies == {NoBody, [petIds |-> <<>>], [carId |-> 3]}

PetNext ==
    \/ ListAll \/ Create(RelCreateBodies) \/ Delete \/ PartialUpdate(RelPatchBodies)
    \/ FindByName({Text(1)}) \/ FindByAge({NumStr(10)}) \/ AverageAge
    \/ AddPet(PetIdSpace \cup {BadId}) \/ ListPets \/ GetCar
    \/ AttachCar({BadId, 3}) \/ Receive

PetSpec == Init /\ [][PetNext]_vars

\* ------------------------------------------------------------- the cars
\* every route, with the requests that vary carId; time stands still
CarNext ==
    \/ ListAll \/ Create(RelCreateBodies) \/ Delete \/ PartialUpdate(RelPatchBodies)
    \/ FindByName({Text(1)}) \/ FindByAge({NumStr(10)}) \/ AverageAge
    \/ AddPet({BadId, 1}) \/ ListPets \/ GetCar
    \/ AttachCar(CarIdSpace \cup {BadId}) \/ Receive

CarSpec == Init /\ [][CarNext]_vars

\* ------------------------------------------------- pets and cars together
\* every route, with the requests that vary petIds and carId, while pets are
\* being deleted
RelNext ==
    \/ ListAll \/ Create(RelCreateBodies) \/ Delete \/ PartialUpdate(RelPatchBodies)
    \/ FindByName({Text(1)}) \/ FindByAge({NumStr(10)}) \/ AverageAge
    \/ AddPet(PetIdSpace \cup {BadId}) \/ ListPets \/ GetCar
    \/ AttachCar(CarIdSpace \cup {BadId}) \/ DeletePet \/ Receive

RelSpec == Init /\ [][RelNext]_vars

\* ------------------------------------------------ concurrent requests
ConcRequests ==
    {Req("post", BadId, BadId, Missing, Valid)}
    \cup {Req("delete", id, BadId, Missing, NoBody) : id \in 1 .. MaxPeople}
    \cup {Req("patch", id, BadId, Missing, NoBody) : id \in 1 .. MaxPeople}
    \cup {Req("addPet", id, petId, Missing, NoBody) : id \in 1 .. MaxPeople, petId \in PetIdSpace}
    \cup {Req("addCar", id, 1, Missing, NoBody) : id \in 1 .. MaxPeople}

Arrive == \E s \in DOMAIN inflight, req \in ConcRequests : Validate(s, req)

Run == \E s \in DOMAIN inflight : Handle(s)

ConcNext == Arrive \/ Run \/ Receive

ConcSpec == Init /\ [][ConcNext]_vars

\* ================================================================ claims
PetIdsOf(doc) == IF "petIds" \in DOMAIN doc THEN doc.petIds ELSE <<>>

\* C1: every request on which a declared validator fails is answered with
\* status 400 and the body {errors: [...]} that lists the failures.
C1_FailedValidationIs400 ==
    resp.errors # {} => (resp.status = 400 /\ resp.body = [errors |-> resp.errors])

\* C2: a request on which a declared validator fails leaves the people
\* collection (and the ids the storage layer has assigned) as it was.
C2_FailedValidationNeverMutates ==
    [][resp'.errors # {} => (people' = people /\ nextId' = nextId)]_vars

\* C2 witness: a partial update of an existing person was refused for a body key
\* outside the allowed fields.
C2_Witness ==
    /\ resp.req.op = "patch"
    /\ resp.req.id \in DOMAIN people
    /\ resp.errors = {Err("", "Bad model")}
    /\ resp.status = 400

\* C3: every stored person has an age that is a number within [1, 150].
C3_AgeInRange ==
    \A p \in DOMAIN people :
        LET age == Field(people[p], "age")
        IN age.t = "number" /\ age.v >= 1 /\ age.v <= 150

\* C4: a successful partial update of an existing person sets exactly the
\* fields of the body to the body's values and updatedAt to a time not before
\* the call; the person's other fields and all other documents do not change.
C4_PatchSetsExactlyTheBody ==
    [][(resp'.req.op = "patch" /\ resp'.status = 200 /\ resp'.req.id \in DOMAIN people)
       => LET id == resp'.req.id
              body == resp'.req.body
          IN /\ DOMAIN people' = DOMAIN people
             /\ \A p \in DOMAIN people \ {id} : people'[p] = people[p]
             /\ DOMAIN people'[id] = DOMAIN people[id] \cup DOMAIN body \cup {"updatedAt"}
             /\ \A f \in DOMAIN body : people'[id][f] = body[f]
             /\ people'[id].updatedAt.t = "number"
             /\ people'[id].updatedAt.v >= clock
             /\ \A f \in DOMAIN people[id] \ (DOMAIN body \cup {"updatedAt"}) :
                   people'[id][f] = people[id][f]]_vars

\* C4 witness: a person was renamed and re-aged after time had passed; its
\* lastname is as created and the other person was never updated.
C4_Witness ==
    /\ resp.req.op = "patch"
    /\ resp.status = 200
    /\ resp.req.body = [name |-> Text(2), age |-> Num(30)]
    /\ resp.req.id \in DOMAIN people
    /\ people[resp.req.id] = [name |-> Text(2), lastname |-> Text(1), age |-> Num(30),
                              updatedAt |-> Num(1)]
    /\ \E p \in DOMAIN people \ {resp.req.id} : people[p] = Valid

\* C5: a delete with a well-formed id answers 200 {deletedPersonId} and removes
\* exactly the person of that id, if there is one: the list no longer contains
\* it, the other documents are unchanged, and the same delete issued again
\* answers 200 and changes nothing.
C5_DeleteRemovesExactlyOne ==
    [][(resp'.req.op = "delete" /\ resp'.req.id # BadId)
       => LET id == resp'.req.id
              list == GetAll(people', nextId').body
              again == DeletePerson(id, Validators(resp'.req, people', pets'), people', nextId')
          IN /\ resp'.status = 200
             /\ resp'.body = [deletedPersonId |-> id]
             /\ DOMAIN people' = DOMAIN people \ {id}
             /\ \A p \in DOMAIN people' : people'[p] = people[p]
             /\ \A i \in DOMAIN list : list[i]._id # id
             /\ again.status = 200
             /\ again.people = people']_vars

\* C5 witness: a person that existed was deleted and another person remains.
C5_Witness ==
    /\ resp.req.op = "delete"
    /\ resp.status = 200
    /\ resp.req.id # BadId
    /\ resp.req.id < nextId
    /\ resp.req.id \notin DOMAIN people
    /\ DOMAIN people # {}

\* C6: a successful add-pet on an existing person appends the pet id as the
\* last element of that person's petIds and changes nothing else; no other
\* step changes the petIds of a person that stays in the collection.
C6_PetIdsAppendOnly ==
    [][\A p \in DOMAIN people \cap DOMAIN people' :
          IF resp'.req.op = "addPet" /\ resp'.status = 200 /\ resp'.req.id = p
          THEN /\ "petIds" \in DOMAIN people'[p]
               /\ people'[p].petIds = Append(PetIdsOf(people[p]), resp'.req.sub)
               /\ Unset(people'[p], "petIds") = Unset(people[p], "petIds")
               /\ DOMAIN people' = DOMAIN people
               /\ \A q \in DOMAIN people \ {p} : people'[q] = people[q]
          ELSE /\ ("petIds" \in DOMAIN people'[p]) = ("petIds" \in DOMAIN people[p])
               /\ PetIdsOf(people'[p]) = PetIdsOf(people[p])]_vars

\* C6 witness: the same pet was attached twice to a person and is twice in its
\* petIds.
C6_Witness ==
    /\ resp.req.op = "addPet"
    /\ resp.status = 200
    /\ resp.req.id \in DOMAIN people
    /\ people[resp.req.id].petIds = <<resp.req.sub, resp.req.sub>>

\* C7: list-pets on an existing person answers that person without petIds and
\* with a pets array whose ids are exactly the ids in the person's petIds.
C7_PetsAreExactlyPetIds ==
    (resp.req.op = "pets" /\ resp.req.id \in DOMAIN people)
    => /\ resp.status = 200
       /\ Len(resp.body) = 1
       /\ resp.body[1]._id = resp.req.id
       /\ "petIds" \notin DOMAIN resp.body[1]
       /\ {resp.body[1].pets[i]._id : i \in DOMAIN resp.body[1].pets}
            = Range(PetIdsOf(people[resp.req.id]))

\* the entry of person p in the body of a get-car response
CarEntry(body, p) == body[CHOOSE i \in DOMAIN body : body[i]._id = p]

\* C8: get-car answers, whatever the path id, one entry for every person, each
\* without carId and with a car field holding the cars whose id is the person's
\* carId; after a successful attach of car c to person p, p's entry embeds c.
C8_CarLookupIsUnscoped ==
    [][/\ resp'.req.op = "car"
          => /\ resp'.status = 200
             /\ Len(resp'.body) = Cardinality(DOMAIN people')
             /\ \A p \in DOMAIN people' :
                   \E i \in DOMAIN resp'.body :
                      /\ resp'.body[i]._id = p
                      /\ "carId" \notin DOMAIN resp'.body[i]
                      /\ {resp'.body[i].car[j]._id : j \in DOMAIN resp'.body[i].car}
                           = {c \in cars : "carId" \in DOMAIN people'[p] /\ people'[p].carId = c}
                      /\ Len(resp'.body[i].car) <= 1
                      /\ \A f \in DOMAIN people'[p] \ {"carId"} :
                            resp'.body[i][f] = people'[p][f]
             /\ \A id \in Ids :
                   GetPersonCar(id, IdValidator(id, people'), people', nextId').body = resp'.body
       /\ (resp'.req.op = "addCar" /\ resp'.status = 200 /\ resp'.req.id \in DOMAIN people')
          => LET entry == CarEntry(GetPersonCar(resp'.req.id, {}, people', nextId').body,
                                   resp'.req.id)
             IN /\ entry.car = <<[_id |-> resp'.req.sub]>>
                /\ "carId" \notin DOMAIN entry]_vars

\* C8 witness: get-car with an id that names no person answered both people,
\* one of them with its attached car embedded.
C8_Witness ==
    /\ resp.req.op = "car"
    /\ resp.req.id \notin DOMAIN people
    /\ Cardinality(DOMAIN people) = 2
    /\ Len(resp.body) = 2
    /\ \E i \in DOMAIN resp.body : resp.body[i].car = <<[_id |-> 2]>>
    /\ \E i \in DOMAIN resp.body : resp.body[i].car = <<>>

\* the sum of the numeric ages, document by document in list order
RECURSIVE NumericAgeTotal(_)
NumericAgeTotal(list) ==
    IF list = <<>> THEN [sum |-> 0, n |-> 0]
    ELSE LET rest == NumericAgeTotal(Tail(list))
             age == Field(Head(list), "age")
         IN IF age.t = "number" THEN [sum |-> rest.sum + age.v, n |-> rest.n + 1] ELSE rest

\* C9 (as amended): average-age mutates nothing and answers an empty array for
\* the empty collection, otherwise exactly one element {_id: "average",
\* average: m}, m being the mean of the numeric ages, null when there is none.
C9_AverageOfNumericAges ==
    [][resp'.req.op = "average"
       => LET total == NumericAgeTotal(GetAll(people, nextId).body)
          IN /\ people' = people
             /\ resp'.status = 200
             /\ IF DOMAIN people = {} THEN resp'.body = <<>>
                ELSE /\ Len(resp'.body) = 1
                     /\ resp'.body[1]._id = "average"
                     /\ IF total.n = 0 THEN resp'.body[1].average = Null
                        ELSE /\ resp'.body[1].average.t = "number"
                             /\ resp'.body[1].average.den > 0
                             /\ resp'.body[1].average.num * total.n
                                  = total.sum * resp'.body[1].average.den]_vars

\* C9 witness: two people aged 10 and 30 and the answer 20.
C9_Witness ==
    /\ resp.req.op = "average"
    /\ {people[p].age : p \in DOMAIN people} = {Num(10), Num(30)}
    /\ resp.body = <<[_id |-> "average", average |-> [t |-> "number", num |-> 20, den |-> 1]]>>

\* C9 (as claimed): average-age answers, for every state of the collection,
\* exactly one element {_id: "average", average: m}, m the mean of all ages.
C9_AlwaysOneElement ==
    resp.req.op = "average"
    => /\ Len(resp.body) = 1
       /\ resp.body[1]._id = "average"
       /\ resp.body[1].average.t = "number"
       /\ resp.body[1].average.num * Cardinality(DOMAIN people)
            = SumAges(people, DOMAIN people) * resp.body[1].average.den

\* C10: a success response of add-pet, attach-car or partial update is given
\* only when the update was applied to a person in the collection.
C10_SuccessMeansApplied ==
    (resp.req.op \in {"addPet", "addCar", "patch"} /\ resp.status = 200)
    => resp.req.id \in DOMAIN people

====
